---- MODULE Spec2Model ----
(***************************************************************************)
(* Model of k8s_pod_limits_checker.py: one run of main().                  *)
(*                                                                         *)
(* The Cluster API (kubernetes client) is the environment: the outcome of  *)
(* the two credential loaders, the response of the list call and the       *)
(* outcome of every patch call are chosen nondeterministically.  Text is   *)
(* modelled by TLA+ strings; a text made with "\n".join(lines) is modelled *)
(* by the sequence of its lines.  The logger's sinks are not modelled.     *)
(*                                                                         *)
(* A list response holds each pod once, in the order of PodIdSeq, and the  *)
(* containers of a pod are named by their position.  A value stored in a   *)
(* limits dict is a str or None (the client's deserializer passes a JSON   *)
(* null through); it is modelled as Some(text) or None.                    *)
(***************************************************************************)
EXTENDS Integers, Sequences, FiniteSets, TLC

VARIABLES
    pc,               \* position of main(): see PcValues
    args,             \* argparse.Namespace: namespace, annotate, output
    v1_client,        \* KubernetesPodChecker.v1_client: None or Some(path)
    attempts,         \* credential loaders called so far, with their outcome
    pod_list,         \* response of the list call: None before it
    issues,           \* main()'s local `issues`
    pods_to_annotate, \* annotate_pods_with_issues' dict, in insertion order
    success_count,
    failure_count,
    api_calls,        \* calls received by the Cluster API, in order
    stdout,           \* texts printed by main(), each a sequence of lines
    exit_code         \* None while running, Some(code) once main returned

vars == <<pc, args, v1_client, attempts, pod_list, issues, pods_to_annotate,
          success_count, failure_count, api_calls, stdout, exit_code>>

-----------------------------------------------------------------------------
(* Bounds of the model.                                                    *)

MaxPods == 2
MaxTotalContainers == 2

-----------------------------------------------------------------------------
(* Python values.                                                          *)

None == << >>
Some(v) == <<v>>
IsNone(o) == o = None
Get(o) == o[1]

\* a dict maps its keys to values that are None or Some(text)
EmptyDict == [k \in {} |-> None]

\* dict.get(key): the value under the key, None when the key is absent; the
\* result is None as well when the key is present and its value is None
DictGet(d, key) == IF key \in DOMAIN d THEN d[key] ELSE None

\* str(bool), as an f-string renders a bool
PyStr(b) == IF b THEN "True" ELSE "False"

\* json.dumps of a bool
JsonBool(b) == IF b THEN "true" ELSE "false"

\* json.dumps of a str without characters that need escaping
JsonStr(s) == "\"" \o s \o "\""

Max(a, b) == IF a >= b THEN a ELSE b

\* f"{val:<{width}}": left-justified, padded with spaces, never truncated
RECURSIVE LJust(_, _)
LJust(val, width) == IF Len(val) >= width THEN val ELSE LJust(val \o " ", width)

\* "-" * n
RECURSIVE Dashes(_)
Dashes(n) == IF n <= 0 THEN "" ELSE "-" \o Dashes(n - 1)

-----------------------------------------------------------------------------
(* The inputs: command line and Cluster API responses.                     *)

\* (namespace, name) of the pods of the cluster, in the order of a list response
PodIdSeq == << <<"kube-system", "web-1">>, <<"ns-a", "coredns-0">>, <<"ns-a", "web-1">> >>

\* container.name, by position in pod.spec.containers
ContainerNameSeq == << "app", "sidecar", "metrics" >>

\* container.resources.limits: a dict from resource names to str or None
LimitsDicts ==
    { EmptyDict,
      [cpu |-> Some("500m")],
      [memory |-> Some("128Mi")],
      [cpu |-> Some("500m"), memory |-> Some("128Mi")],
      [cpu |-> Some("0"), memory |-> Some("")],
      [cpu |-> None, memory |-> Some("128Mi")],
      [cpu |-> Some("500m"), memory |-> None] }

\* container.resources: None, or an object whose limits is None or a dict
ResourcesValues ==
    {None, Some([limits |-> None])} \cup {Some([limits |-> Some(d)]) : d \in LimitsDicts}

Min(a, b) == IF a <= b THEN a ELSE b

\* pod.spec.containers with at most n containers
ContainerLists(n) ==
    UNION { { [i \in 1..k |-> [name |-> ContainerNameSeq[i], resources |-> rs[i]]] :
                rs \in [1..k -> ResourcesValues] }
            : k \in 0..Min(n, Len(ContainerNameSeq)) }

\* pod.spec: None (a pod object without a spec) or an object with containers
SpecValues(n) == {None} \cup { Some([containers |-> cs]) : cs \in ContainerLists(n) }

Pod(id, spec) == [metadata |-> [namespace |-> id[1], name |-> id[2]], spec |-> spec]

NumContainers(pod) == IF IsNone(pod.spec) THEN 0 ELSE Len(Get(pod.spec).containers)

\* pod_list.items made of pods PodIdSeq[i..], at most `pods` of them, holding at
\* most `containers` containers together
RECURSIVE SnapshotsFrom(_, _, _)
SnapshotsFrom(i, pods, containers) ==
    IF i > Len(PodIdSeq) \/ pods = 0 THEN { << >> }
    ELSE SnapshotsFrom(i + 1, pods, containers)
         \cup UNION { { << Pod(PodIdSeq[i], spec) >> \o rest :
                          rest \in SnapshotsFrom(i + 1, pods - 1,
                                                 containers - NumContainers(Pod(PodIdSeq[i], spec))) }
                      : spec \in SpecValues(containers) }

\* pod_list.items: the pods of the cluster (or of one namespace), each once
Snapshots == SnapshotsFrom(1, MaxPods, MaxTotalContainers)

NamespaceArgs == {None, Some("ns-a")}
OutputChoices == {"table", "json", "csv"}
ArgsValues == [namespace : NamespaceArgs, annotate : BOOLEAN, output : OutputChoices]

LoadOutcomes == {"ok", "ConfigException", "Exception"}
CallOutcomes == {"ok", "ApiException", "Exception"}

PcValues == {"start", "fallback", "failed", "connected", "listed", "evaluated",
             "annotating", "reporting", "done"}

-----------------------------------------------------------------------------
(* ContainerLimitIssue and the evaluator.                                  *)

ContainerLimitIssue(namespace, pod_name, container_name, missing_cpu, missing_memory) ==
    [namespace |-> namespace, pod_name |-> pod_name, container_name |-> container_name,
     missing_cpu_limit |-> missing_cpu, missing_memory_limit |-> missing_memory]

\* lines 113-114
container_limits(container) ==
    IF ~IsNone(container.resources) THEN Get(container.resources).limits ELSE None

\* a truthiness test, `not limits.get(key)`, in place of `is None`
is_missing_falsy(limits, key) ==
    \/ IsNone(limits)
    \/ IsNone(DictGet(Get(limits), key))
    \/ Get(DictGet(Get(limits), key)) = ""

\* lines 116-117: `limits is None or limits.get(key) is None`, true for an
\* absent mapping, an absent key and a key whose value is None
is_missing(limits, key) == IsNone(limits) \/ IsNone(DictGet(Get(limits), key))

\* lines 112-132: the inner loop over one pod's containers
RECURSIVE check_containers(_, _, _)
check_containers(namespace_name, pod_name, containers) ==
    IF containers = << >> THEN << >>
    ELSE LET container == Head(containers)
             limits == container_limits(container)
             missing_cpu == is_missing(limits, "cpu")
             missing_memory == is_missing(limits, "memory")
         IN  (IF missing_cpu \/ missing_memory
              THEN << ContainerLimitIssue(namespace_name, pod_name, container.name,
                                          missing_cpu, missing_memory) >>
              ELSE << >>)
             \o check_containers(namespace_name, pod_name, Tail(containers))

\* lines 106-132: the loop over the pods; pod.spec.containers raises on a pod
\* without a spec, leaving containers_with_issues as collected so far
RECURSIVE check_pods(_, _)
check_pods(items, containers_with_issues) ==
    IF items = << >>
    THEN [raised |-> FALSE, containers_with_issues |-> containers_with_issues]
    ELSE LET pod == Head(items)
         IN  IF IsNone(pod.spec)
             THEN [raised |-> TRUE, containers_with_issues |-> containers_with_issues]
             ELSE check_pods(Tail(items),
                             containers_with_issues
                             \o check_containers(pod.metadata.namespace, pod.metadata.name,
                                                 Get(pod.spec).containers))

\* an except handler that returns the list collected so far
evaluation_result_partial(r) == r.containers_with_issues

\* lines 134-144: what the function returns once the loop ended or raised
evaluation_result(r) == IF r.raised THEN << >> ELSE r.containers_with_issues

-----------------------------------------------------------------------------
(* The annotator.                                                          *)

\* lines 161-169: None when there is nothing to annotate
annotation_value(missing_cpu, missing_memory) ==
    IF missing_cpu /\ missing_memory THEN Some("no-limits")
    ELSE IF missing_cpu THEN Some("no-cpu-limit")
    ELSE IF missing_memory THEN Some("no-memory-limit")
    ELSE None

\* a key made of the namespace alone
pod_key_namespace_only(issue) == issue.namespace

\* line 218
pod_key(issue) == issue.namespace \o "/" \o issue.pod_name

\* the flags assigned from the current issue, not OR-ed into the entry
group_one_last_wins(d, issue) ==
    LET key == issue.namespace \o "/" \o issue.pod_name
        d1 == IF \E i \in 1..Len(d) : d[i].key = key THEN d
              ELSE Append(d, [key |-> key, namespace |-> issue.namespace,
                              pod_name |-> issue.pod_name,
                              missing_cpu |-> FALSE, missing_memory |-> FALSE])
    IN  [i \in 1..Len(d1) |->
            IF d1[i].key = key
            THEN [d1[i] EXCEPT !.missing_cpu = issue.missing_cpu_limit,
                               !.missing_memory = issue.missing_memory_limit]
            ELSE d1[i]]

\* lines 220-232: one iteration of the grouping loop on the ordered dict
group_one(d, issue) ==
    LET key == pod_key(issue)
        d1 == IF \E i \in 1..Len(d) : d[i].key = key THEN d
              ELSE Append(d, [key |-> key, namespace |-> issue.namespace,
                              pod_name |-> issue.pod_name,
                              missing_cpu |-> FALSE, missing_memory |-> FALSE])
    IN  [i \in 1..Len(d1) |->
            IF d1[i].key = key
            THEN [d1[i] EXCEPT !.missing_cpu = @ \/ issue.missing_cpu_limit,
                               !.missing_memory = @ \/ issue.missing_memory_limit]
            ELSE d1[i]]

\* lines 215-232
RECURSIVE group_issues(_, _)
group_issues(d, iss) ==
    IF iss = << >> THEN d ELSE group_issues(group_one(d, Head(iss)), Tail(iss))

-----------------------------------------------------------------------------
(* The reporters.                                                          *)

TableHeaders == <<"NAMESPACE", "POD NAME", "CONTAINER NAME", "MISSING CPU", "MISSING MEMORY">>

RECURSIVE MaxLen(_, _)
MaxLen(iss, field) ==
    IF iss = << >> THEN 0 ELSE Max(Len(Head(iss)[field]), MaxLen(Tail(iss), field))

\* lines 273-279
col_widths(iss) ==
    << Max(Len(TableHeaders[1]), MaxLen(iss, "namespace")),
       Max(Len(TableHeaders[2]), MaxLen(iss, "pod_name")),
       Max(Len(TableHeaders[3]), MaxLen(iss, "container_name")),
       Len(TableHeaders[4]),
       Len(TableHeaders[5]) >>

\* lines 283-285
table_separator(w) ==
    "+" \o Dashes(w[1] + 2) \o "+" \o Dashes(w[2] + 2) \o "+" \o Dashes(w[3] + 2)
        \o "+" \o Dashes(w[4] + 2) \o "+" \o Dashes(w[5] + 2) \o "+"

\* lines 287-293 and 297-312: "| " + " | ".join(padded cells) + " |"
table_line(cells, w) ==
    "| " \o LJust(cells[1], w[1]) \o " | " \o LJust(cells[2], w[2]) \o " | "
         \o LJust(cells[3], w[3]) \o " | " \o LJust(cells[4], w[4]) \o " | "
         \o LJust(cells[5], w[5]) \o " |"

\* lines 302-308
table_cells(issue) ==
    << issue.namespace, issue.pod_name, issue.container_name,
       IF issue.missing_cpu_limit THEN "YES" ELSE "NO",
       IF issue.missing_memory_limit THEN "YES" ELSE "NO" >>

\* format_table without its empty case (lines 268-269)
format_table_no_empty_case(iss) ==
    LET w == col_widths(iss)
        separator == table_separator(w)
    IN  << separator, table_line(TableHeaders, w), separator >>
        \o [i \in 1..Len(iss) |-> table_line(table_cells(iss[i]), w)]
        \o << separator >>

\* lines 268-315
format_table(iss) ==
    IF iss = << >> THEN << "No containers with missing resource limits found." >>
    ELSE LET w == col_widths(iss)
             separator == table_separator(w)
         IN  << separator, table_line(TableHeaders, w), separator >>
             \o [i \in 1..Len(iss) |-> table_line(table_cells(iss[i]), w)]
             \o << separator >>

\* asdict(issue) dumped with indent=2 as an element of the list
json_record(issue, last) ==
    << "  {",
       "    \"namespace\": " \o JsonStr(issue.namespace) \o ",",
       "    \"pod_name\": " \o JsonStr(issue.pod_name) \o ",",
       "    \"container_name\": " \o JsonStr(issue.container_name) \o ",",
       "    \"missing_cpu_limit\": " \o JsonBool(issue.missing_cpu_limit) \o ",",
       "    \"missing_memory_limit\": " \o JsonBool(issue.missing_memory_limit),
       IF last THEN "  }" ELSE "  }," >>

RECURSIVE json_records(_)
json_records(iss) ==
    IF iss = << >> THEN << >>
    ELSE json_record(Head(iss), Len(iss) = 1) \o json_records(Tail(iss))

\* line 328
format_json(iss) ==
    IF iss = << >> THEN << "[]" >>
    ELSE << "[" >> \o json_records(iss) \o << "]" >>

\* lines 345-346
csv_line(issue) ==
    "\"" \o issue.namespace \o "\",\"" \o issue.pod_name \o "\",\""
         \o issue.container_name \o "\",\"" \o PyStr(issue.missing_cpu_limit)
         \o "\",\"" \o PyStr(issue.missing_memory_limit) \o "\""

\* lines 341-349
format_csv(iss) ==
    << "NAMESPACE,POD_NAME,CONTAINER_NAME,MISSING_CPU_LIMIT,MISSING_MEMORY_LIMIT" >>
    \o [i \in 1..Len(iss) |-> csv_line(iss[i])]

\* lines 467-473
format_output(output, iss) ==
    IF output = "json" THEN format_json(iss)
    ELSE IF output = "csv" THEN format_csv(iss)
    ELSE format_table(iss)

-----------------------------------------------------------------------------
(* main().                                                                 *)

ListCall(namespace, outcome) ==
    [op |-> IF IsNone(namespace) THEN "list_pod_for_all_namespaces"
            ELSE "list_namespaced_pod",
     namespace |-> IF IsNone(namespace) THEN "" ELSE Get(namespace),
     name |-> "", warning |-> "", outcome |-> outcome]

PatchCall(namespace, pod_name, value, outcome) ==
    [op |-> "patch_namespaced_pod", namespace |-> namespace, name |-> pod_name,
     warning |-> value, outcome |-> outcome]

\* `if namespace:` (line 99)
namespace_scope(namespace) ==
    IF ~IsNone(namespace) /\ Get(namespace) # "" THEN namespace ELSE None

\* the snapshots the Cluster API can return for a scope
SnapshotsFor(scope) ==
    IF IsNone(scope) THEN Snapshots
    ELSE { items \in Snapshots :
             \A i \in 1..Len(items) : items[i].metadata.namespace = Get(scope) }

Init ==
    /\ pc = "start"
    /\ args \in ArgsValues
    /\ v1_client = None
    /\ attempts = << >>
    /\ pod_list = None
    /\ issues = << >>
    /\ pods_to_annotate = << >>
    /\ success_count = 0
    /\ failure_count = 0
    /\ api_calls = << >>
    /\ stdout = << >>
    /\ exit_code = None

\* main line 447
exit_failure == 1

\* main line 478
exit_success == 0

\* connect(): which branch follows load_incluster_config (lines 64-68, 81-83)
after_incluster_falls_back_always(outcome) ==
    IF outcome = "ok" THEN "connected" ELSE "fallback"

after_incluster(outcome) ==
    IF outcome = "ok" THEN "connected"
    ELSE IF outcome = "ConfigException" THEN "fallback"
    ELSE "failed"

\* connect(), lines 62-67 and 81-83, and main lines 445-447
connect_incluster ==
    /\ pc = "start"
    /\ \E outcome \in LoadOutcomes :
         /\ attempts' = Append(attempts, <<"incluster", outcome>>)
         /\ pc' = after_incluster(outcome)
         /\ v1_client' = IF pc' = "connected" THEN Some("incluster") ELSE v1_client
         /\ exit_code' = IF pc' = "failed" THEN Some(exit_failure) ELSE exit_code
    /\ UNCHANGED <<args, pod_list, issues, pods_to_annotate, success_count,
                   failure_count, api_calls, stdout>>

\* connect(), lines 68-80, and main lines 445-447
connect_kubeconfig ==
    /\ pc = "fallback"
    /\ \E outcome \in LoadOutcomes :
         /\ attempts' = Append(attempts, <<"kubeconfig", outcome>>)
         /\ IF outcome = "ok"
            THEN /\ v1_client' = Some("kubeconfig")
                 /\ pc' = "connected"
                 /\ exit_code' = exit_code
            ELSE /\ pc' = "failed"
                 /\ exit_code' = Some(exit_failure)
                 /\ UNCHANGED v1_client
    /\ UNCHANGED <<args, pod_list, issues, pods_to_annotate, success_count,
                   failure_count, api_calls, stdout>>

\* get_containers_with_missing_limits, lines 95-104 and 139-144: the list call
list_pods ==
    /\ pc = "connected"
    /\ LET scope == namespace_scope(args.namespace)
       IN  \/ \E outcome \in CallOutcomes \ {"ok"} :
                /\ api_calls' = Append(api_calls, ListCall(scope, outcome))
                /\ pod_list' = Some([raised |-> outcome, items |-> << >>])
                /\ issues' = << >>
                /\ pc' = "evaluated"
           \/ \E items \in SnapshotsFor(scope) :
                /\ api_calls' = Append(api_calls, ListCall(scope, "ok"))
                /\ pod_list' = Some([raised |-> "ok", items |-> items])
                /\ issues' = issues
                /\ pc' = "listed"
    /\ UNCHANGED <<args, v1_client, attempts, pods_to_annotate, success_count,
                   failure_count, stdout, exit_code>>

\* get_containers_with_missing_limits, lines 106-144: the evaluation
evaluate ==
    /\ pc = "listed"
    /\ issues' = evaluation_result(check_pods(Get(pod_list).items, << >>))
    /\ pc' = "evaluated"
    /\ UNCHANGED <<args, v1_client, attempts, pod_list, pods_to_annotate,
                   success_count, failure_count, api_calls, stdout, exit_code>>

\* `if args.annotate:` without the test of issues
annotation_requested_ignores_issues(a, iss) == a.annotate

\* main line 453
annotation_requested(a, iss) == a.annotate /\ iss # << >>

\* main lines 453-455 and annotate_pods_with_issues lines 215-238
start_annotation ==
    /\ pc = "evaluated"
    /\ annotation_requested(args, issues)
    /\ pods_to_annotate' = group_issues(<< >>, issues)
    /\ pc' = "annotating"
    /\ UNCHANGED <<args, v1_client, attempts, pod_list, issues, success_count,
                   failure_count, api_calls, stdout, exit_code>>

\* main lines 463-464
skip_annotation ==
    /\ pc = "evaluated"
    /\ ~annotation_requested(args, issues)
    /\ pc' = "reporting"
    /\ UNCHANGED <<args, v1_client, attempts, pod_list, issues, pods_to_annotate,
                   success_count, failure_count, api_calls, stdout, exit_code>>

\* a generic handler (lines 197-201) that does not return False
annotate_pod_returns_swallow(outcome) == outcome # "ApiException"

\* annotate_pod lines 181-201: what it returns after the patch call
annotate_pod_returns(outcome) == outcome = "ok"

\* a loop that stops at the first failed pod
annotation_loop_aborts(d, successes, failures) ==
    successes + failures = Len(d) \/ failures > 0

\* annotate_pods_with_issues line 240: the loop ends when every entry was visited
annotation_loop_finished(d, successes, failures) == successes + failures = Len(d)

\* annotate_pods_with_issues lines 240-249 with annotate_pod lines 159-201:
\* one iteration of the loop over pods_to_annotate.values()
annotate_next_pod ==
    /\ pc = "annotating"
    /\ ~annotation_loop_finished(pods_to_annotate, success_count, failure_count)
    /\ LET pod_info == pods_to_annotate[success_count + failure_count + 1]
           value == annotation_value(pod_info.missing_cpu, pod_info.missing_memory)
       IN  IF IsNone(value)
           THEN /\ failure_count' = failure_count + 1
                /\ UNCHANGED <<success_count, api_calls>>
           ELSE \E outcome \in CallOutcomes :
                  /\ api_calls' = Append(api_calls,
                                         PatchCall(pod_info.namespace, pod_info.pod_name,
                                                   Get(value), outcome))
                  /\ IF annotate_pod_returns(outcome)
                     THEN /\ success_count' = success_count + 1
                          /\ failure_count' = failure_count
                     ELSE /\ failure_count' = failure_count + 1
                          /\ success_count' = success_count
    /\ UNCHANGED <<pc, args, v1_client, attempts, pod_list, issues, pods_to_annotate,
                   stdout, exit_code>>

\* annotate_pods_with_issues line 251 and main lines 456-462
finish_annotation ==
    /\ pc = "annotating"
    /\ annotation_loop_finished(pods_to_annotate, success_count, failure_count)
    /\ pc' = "reporting"
    /\ UNCHANGED <<args, v1_client, attempts, pod_list, issues, pods_to_annotate,
                   success_count, failure_count, api_calls, stdout, exit_code>>

\* main returning 1 when some pod could not be annotated
report_fails_on_partial ==
    /\ pc = "reporting"
    /\ stdout' = Append(stdout, format_output(args.output, issues))
    /\ exit_code' = Some(IF failure_count > 0 THEN exit_failure ELSE exit_success)
    /\ pc' = "done"
    /\ UNCHANGED <<args, v1_client, attempts, pod_list, issues, pods_to_annotate,
                   success_count, failure_count, api_calls>>

\* main lines 467-478
report ==
    /\ pc = "reporting"
    /\ stdout' = Append(stdout, format_output(args.output, issues))
    /\ exit_code' = Some(exit_success)
    /\ pc' = "done"
    /\ UNCHANGED <<args, v1_client, attempts, pod_list, issues, pods_to_annotate,
                   success_count, failure_count, api_calls>>

Next ==
    \/ connect_incluster
    \/ connect_kubeconfig
    \/ list_pods
    \/ evaluate
    \/ start_annotation
    \/ skip_annotation
    \/ annotate_next_pod
    \/ finish_annotation
    \/ report

Spec == Init /\ [][Next]_vars

-----------------------------------------------------------------------------
(* Vocabulary of the properties.                                           *)

PatchCalls == SelectSeq(api_calls, LAMBDA c : c.op = "patch_namespaced_pod")
FailedPatchCalls == SelectSeq(PatchCalls, LAMBDA c : c.outcome # "ok")
PatchedPods == { <<PatchCalls[k].namespace, PatchCalls[k].name>> : k \in 1..Len(PatchCalls) }
PodsOf(iss) == { <<iss[i].namespace, iss[i].pod_name>> : i \in 1..Len(iss) }

Evaluated == pc \in {"evaluated", "annotating", "reporting", "done"}
AnnotationOver == pc \in {"reporting", "done"}
ListedOk == ~IsNone(pod_list) /\ Get(pod_list).raised = "ok"
ListedItems == Get(pod_list).items
WellFormed(items) == \A i \in 1..Len(items) : ~IsNone(items[i].spec)

\* the containers of a snapshot, pod after pod, each pod's containers in order
RECURSIVE SnapshotContainers(_)
SnapshotContainers(items) ==
    IF items = << >> THEN << >>
    ELSE LET pod == Head(items)
             cs == Get(pod.spec).containers
         IN  [i \in 1..Len(cs) |-> [namespace |-> pod.metadata.namespace,
                                    pod_name |-> pod.metadata.name,
                                    container |-> cs[i]]]
             \o SnapshotContainers(Tail(items))

\* the limits mapping exists and holds the key, whatever the value under it
HasKey(container, key) ==
    /\ container.resources # None
    /\ Get(container.resources).limits # None
    /\ key \in DOMAIN Get(Get(container.resources).limits)

\* the limits mapping exists and holds a value other than None under the key
HasValue(container, key) ==
    /\ HasKey(container, key)
    /\ Get(Get(container.resources).limits)[key] # None

\* the containers for which present(container, "cpu") or
\* present(container, "memory") fails, in snapshot order, each with its flags
FindingsBy(items, present(_, _)) ==
    LET kept == SelectSeq(SnapshotContainers(items),
                          LAMBDA e : ~present(e.container, "cpu") \/ ~present(e.container, "memory"))
    IN  [i \in 1..Len(kept) |->
            [namespace |-> kept[i].namespace,
             pod_name |-> kept[i].pod_name,
             container_name |-> kept[i].container.name,
             missing_cpu_limit |-> ~present(kept[i].container, "cpu"),
             missing_memory_limit |-> ~present(kept[i].container, "memory")]]

ExpectedFindings(items) == FindingsBy(items, HasValue)

-----------------------------------------------------------------------------
\* C1: once a well-formed snapshot has been evaluated, issues is exactly the
\* snapshot's containers in pod order and container order, filtered to those
\* whose limits mapping is absent or holds no value other than None under
\* "cpu" or under "memory" (the key is absent or mapped to None), each with
\* its two flags computed independently; a container holding a value other
\* than None under both keys yields no Finding, whatever the two values are.
C1_EvaluatorContract ==
    (Evaluated /\ ListedOk /\ WellFormed(ListedItems))
        => issues = ExpectedFindings(ListedItems)

\* a pod of two containers: the first holds both keys, with the values "0" and
\* "", and yields no Finding; the second holds both keys with None under "cpu"
\* and is the one Finding, missing its CPU limit only
C1_Witness ==
    /\ pc = "evaluated" /\ ListedOk /\ WellFormed(ListedItems)
    /\ Len(ListedItems) = 1
    /\ NumContainers(ListedItems[1]) = 2
    /\ Get(ListedItems[1].spec).containers[1].resources
         = Some([limits |-> Some([cpu |-> Some("0"), memory |-> Some("")])])
    /\ Get(ListedItems[1].spec).containers[2].resources
         = Some([limits |-> Some([cpu |-> None, memory |-> Some("128Mi")])])
    /\ Len(issues) = 1
    /\ issues[1].container_name = "sidecar"
    /\ issues[1].missing_cpu_limit /\ ~issues[1].missing_memory_limit

\* C1 as stated: the filter and the two flags follow key presence alone, so a
\* container that has both keys present yields no Finding regardless of the
\* values stored under them
C1_KeyPresenceOnly ==
    (Evaluated /\ ListedOk /\ WellFormed(ListedItems))
        => issues = FindingsBy(ListedItems, HasKey)

-----------------------------------------------------------------------------
\* C2: no pod receives two patch calls, only pods of the Findings are patched,
\* and once the annotator has returned the patched pods are exactly the
\* distinct (namespace, pod_name) pairs of the Findings; with no Findings there
\* is no patch call.
C2_OnePatchPerPod ==
    /\ \A i, j \in 1..Len(PatchCalls) :
         i # j => <<PatchCalls[i].namespace, PatchCalls[i].name>>
                    # <<PatchCalls[j].namespace, PatchCalls[j].name>>
    /\ PatchedPods \subseteq PodsOf(issues)
    /\ (AnnotationOver /\ args.annotate) => PatchedPods = PodsOf(issues)
    /\ issues = << >> => PatchCalls = << >>

\* two Findings in one pod, one patch call
C2_Witness ==
    /\ pc = "done" /\ args.annotate
    /\ Len(issues) = 2
    /\ Cardinality(PodsOf(issues)) = 1
    /\ Len(PatchCalls) = 1

-----------------------------------------------------------------------------
AggregateMissing(namespace, pod_name, field) ==
    \E i \in 1..Len(issues) :
        /\ issues[i].namespace = namespace
        /\ issues[i].pod_name = pod_name
        /\ issues[i][field]

\* C3: the value of every patch call is one of the three labels, chosen from
\* the OR of the flags over all Findings of the patched pod; no entry of the
\* grouping has both aggregates false.
C3_LabelFromAggregate ==
    /\ \A k \in 1..Len(PatchCalls) :
         LET c == PatchCalls[k]
             cpu == AggregateMissing(c.namespace, c.name, "missing_cpu_limit")
             mem == AggregateMissing(c.namespace, c.name, "missing_memory_limit")
         IN  /\ c.warning \in {"no-limits", "no-cpu-limit", "no-memory-limit"}
             /\ (c.warning = "no-limits") <=> (cpu /\ mem)
             /\ (c.warning = "no-cpu-limit") <=> (cpu /\ ~mem)
             /\ (c.warning = "no-memory-limit") <=> (mem /\ ~cpu)
    /\ \A k \in 1..Len(pods_to_annotate) :
         pods_to_annotate[k].missing_cpu \/ pods_to_annotate[k].missing_memory

\* a pod labelled "no-limits" although none of its containers misses both kinds
C3_Witness ==
    \E k \in 1..Len(PatchCalls) :
        /\ PatchCalls[k].warning = "no-limits"
        /\ \A i \in 1..Len(issues) :
             (issues[i].namespace = PatchCalls[k].namespace
                /\ issues[i].pod_name = PatchCalls[k].name)
               => ~(issues[i].missing_cpu_limit /\ issues[i].missing_memory_limit)

-----------------------------------------------------------------------------
\* C4: every failed patch call is counted as exactly one failure, no pod is
\* attempted twice, and whatever the pattern of patch outcomes the annotator
\* returns only after one attempt on every distinct pod of the Findings.
C4_FailureIsolated ==
    /\ failure_count = Len(FailedPatchCalls)
    /\ Cardinality(PatchedPods) = Len(PatchCalls)
    /\ (AnnotationOver /\ args.annotate)
         => Len(PatchCalls) = Cardinality(PodsOf(issues))

\* the first pod's patch failed and the second pod was still patched
C4_Witness ==
    /\ pc = "done"
    /\ Len(PatchCalls) = 2
    /\ PatchCalls[1].outcome = "ApiException"
    /\ PatchCalls[2].outcome = "ok"
    /\ failure_count = 1

-----------------------------------------------------------------------------
\* C5: the counts returned by the annotator sum to the number of distinct
\* (namespace, pod_name) pairs of the Findings, and success_count is the number
\* of patch calls that succeeded.
C5_CountsSumToPods ==
    /\ success_count = Len(PatchCalls) - Len(FailedPatchCalls)
    /\ (AnnotationOver /\ args.annotate /\ issues # << >>)
         => success_count + failure_count = Cardinality(PodsOf(issues))

\* two Findings in one pod, whose patch failed: the counts sum to one
C5_Witness ==
    /\ pc = "reporting"
    /\ Len(issues) = 2
    /\ success_count = 0
    /\ failure_count = 1

-----------------------------------------------------------------------------
Loader(k) == attempts[k][1]
Outcome(k) == attempts[k][2]

\* C6 as stated: in-cluster first; every failure of that attempt is followed
\* by the external credential file; failed only after both attempts failed.
C6_FallbackOnAnyFailure ==
    /\ attempts # << >> => Loader(1) = "incluster"
    /\ (attempts # << >> /\ Outcome(1) # "ok")
         => (pc = "fallback" \/ (Len(attempts) = 2 /\ Loader(2) = "kubeconfig"))
    /\ pc = "failed" => (Len(attempts) = 2 /\ Outcome(1) # "ok" /\ Outcome(2) # "ok")
    /\ v1_client # None
         => Cardinality({ k \in 1..Len(attempts) : Outcome(k) = "ok" }) = 1

\* C6 (amended): in-cluster first; the external credential file is tried
\* exactly when the in-cluster attempt failed with ConfigException; failed is
\* reached after both attempts failed or right after the in-cluster attempt
\* raised another error; a connected session used the one loader that
\* succeeded, which is the last one tried.
C6_ConnectPolicy ==
    /\ Len(attempts) <= 2
    /\ pc # "start" <=> attempts # << >>
    /\ attempts # << >> => Loader(1) = "incluster"
    /\ Len(attempts) = 2 => Loader(2) = "kubeconfig"
    /\ attempts # << >>
         => ((Outcome(1) = "ConfigException") <=> (pc = "fallback" \/ Len(attempts) = 2))
    /\ pc = "failed"
         <=> /\ attempts # << >>
             /\ Outcome(Len(attempts)) # "ok"
             /\ (Len(attempts) = 2 \/ Outcome(1) # "ConfigException")
    /\ pc = "failed" => v1_client = None
    /\ v1_client # None
         <=> (attempts # << >> /\ Outcome(Len(attempts)) = "ok")
    /\ v1_client # None
         => /\ v1_client = Some(Loader(Len(attempts)))
            /\ Cardinality({ k \in 1..Len(attempts) : Outcome(k) = "ok" }) = 1

\* connected through the external credential file after the in-cluster attempt
\* failed with ConfigException
C6_Witness ==
    /\ pc = "connected"
    /\ v1_client = Some("kubeconfig")
    /\ attempts = << <<"incluster", "ConfigException">>, <<"kubeconfig", "ok">> >>

-----------------------------------------------------------------------------
\* the steps of main() before the report (the report step itself is enabled
\* by its position alone)
StepBeforeReport ==
    \/ connect_incluster \/ connect_kubeconfig \/ list_pods \/ evaluate
    \/ start_annotation \/ skip_annotation \/ annotate_next_pod \/ finish_annotation

\* C7: the exit code is 1 exactly in the failed state, which is reached only
\* without a connection; a run stops nowhere between start and the report,
\* whatever the list call and the patch calls did, and the exit code of a run
\* that is done, which is a run that connected, is 0.
C7_ExitCode ==
    /\ exit_code = Some(1) <=> pc = "failed"
    /\ exit_code = Some(0) <=> pc = "done"
    /\ exit_code \in {None, Some(0), Some(1)}
    /\ pc = "failed" => (v1_client = None /\ api_calls = << >>)
    /\ v1_client = None => pc \in {"start", "fallback", "failed"}
    /\ pc \notin {"failed", "done", "reporting"} => ENABLED StepBeforeReport

\* a run that ended with exit code 0 although a pod could not be annotated
C7_Witness ==
    /\ pc = "done"
    /\ exit_code = Some(0)
    /\ failure_count > 0

-----------------------------------------------------------------------------
EvaluationFailed ==
    /\ ~IsNone(pod_list)
    /\ \/ Get(pod_list).raised # "ok"
       \/ ~WellFormed(ListedItems)

EmptyCaseText(output) ==
    IF output = "json" THEN << "[]" >>
    ELSE IF output = "csv"
    THEN << "NAMESPACE,POD_NAME,CONTAINER_NAME,MISSING_CPU_LIMIT,MISSING_MEMORY_LIMIT" >>
    ELSE << "No containers with missing resource limits found." >>

\* C8: when the list call failed or the evaluation raised, issues is empty,
\* no patch call is ever issued, and the run prints the empty-case text and
\* ends with exit code 0.
C8_DegradeToEmpty ==
    (Evaluated /\ EvaluationFailed)
        => /\ issues = << >>
           /\ PatchCalls = << >>
           /\ pc # "annotating"
           /\ pc = "done" => (stdout = << EmptyCaseText(args.output) >>
                              /\ exit_code = Some(0))

\* annotation requested, a first pod with a container without limits and a
\* second pod on which the evaluation raised
C8_Witness ==
    /\ pc = "done" /\ args.annotate
    /\ ListedOk
    /\ Len(ListedItems) = 2
    /\ ~IsNone(ListedItems[1].spec)
    /\ \E i \in 1..NumContainers(ListedItems[1]) :
         Get(ListedItems[1].spec).containers[i].resources = None
    /\ IsNone(ListedItems[2].spec)

-----------------------------------------------------------------------------
Spaces(n) == [i \in 1..n |-> " "]

RECURSIVE Concat(_)
Concat(strs) == IF strs = << >> THEN "" ELSE Head(strs) \o Concat(Tail(strs))

Widest(header, field) ==
    LET lens == {Len(header)} \cup { Len(issues[i][field]) : i \in 1..Len(issues) }
    IN  CHOOSE m \in lens : \A n \in lens : n <= m

PadTo(s, w) == s \o Concat(Spaces(w - Len(s)))

YesNo(b) == IF b THEN "YES" ELSE "NO"

ExpectedTableRow(f) ==
    "| " \o PadTo(f.namespace, Widest("NAMESPACE", "namespace"))
    \o " | " \o PadTo(f.pod_name, Widest("POD NAME", "pod_name"))
    \o " | " \o PadTo(f.container_name, Widest("CONTAINER NAME", "container_name"))
    \o " | " \o PadTo(YesNo(f.missing_cpu_limit), 11)
    \o " | " \o PadTo(YesNo(f.missing_memory_limit), 14) \o " |"

ExpectedCsvRow(f) ==
    Concat(<< "\"", f.namespace, "\",\"", f.pod_name, "\",\"", f.container_name, "\",\"",
              IF f.missing_cpu_limit THEN "True" ELSE "False", "\",\"",
              IF f.missing_memory_limit THEN "True" ELSE "False", "\"" >>)

ExpectedJsonFields(f) ==
    << "    \"namespace\": \"" \o f.namespace \o "\",",
       "    \"pod_name\": \"" \o f.pod_name \o "\",",
       "    \"container_name\": \"" \o f.container_name \o "\",",
       "    \"missing_cpu_limit\": " \o (IF f.missing_cpu_limit THEN "true" ELSE "false") \o ",",
       "    \"missing_memory_limit\": " \o (IF f.missing_memory_limit THEN "true" ELSE "false") >>

TableOk(out) ==
    IF issues = << >>
    THEN out = << "No containers with missing resource limits found." >>
    ELSE /\ Len(out) = Len(issues) + 4
         /\ out[1] = out[3] /\ out[1] = out[Len(out)]
         /\ \A i \in 1..Len(issues) : out[i + 3] = ExpectedTableRow(issues[i])

CsvOk(out) ==
    /\ Len(out) = Len(issues) + 1
    /\ out[1] = "NAMESPACE,POD_NAME,CONTAINER_NAME,MISSING_CPU_LIMIT,MISSING_MEMORY_LIMIT"
    /\ \A i \in 1..Len(issues) : out[i + 1] = ExpectedCsvRow(issues[i])

JsonOk(out) ==
    IF issues = << >>
    THEN out = << "[]" >>
    ELSE /\ Len(out) = 7 * Len(issues) + 2
         /\ out[1] = "[" /\ out[Len(out)] = "]"
         /\ \A i \in 1..Len(issues) :
              /\ out[7 * i - 5] = "  {"
              /\ SubSeq(out, 7 * i - 4, 7 * i) = ExpectedJsonFields(issues[i])
              /\ out[7 * i + 1] = (IF i = Len(issues) THEN "  }" ELSE "  },")

\* C9: the text printed by a finished run is the selected reporter's rendering
\* of issues: the fixed sentence (table), the header line alone (csv) or "[]"
\* (json) when issues is empty, and otherwise one record per Finding, in the
\* order of issues.
C9_Reporters ==
    pc = "done"
        => /\ Len(stdout) = 1
           /\ args.output = "table" => TableOk(stdout[1])
           /\ args.output = "csv" => CsvOk(stdout[1])
           /\ args.output = "json" => JsonOk(stdout[1])

\* a table of two Findings, the first with a namespace wider than its header
C9_Witness ==
    /\ pc = "done"
    /\ args.output = "table"
    /\ Len(issues) = 2
    /\ issues[1].namespace = "kube-system"
    /\ issues[2].namespace = "ns-a"
    /\ Len(stdout[1]) = 6

-----------------------------------------------------------------------------
AllowedSteps ==
    { <<"start", "connected">>, <<"start", "fallback">>, <<"start", "failed">>,
      <<"fallback", "connected">>, <<"fallback", "failed">>,
      <<"connected", "listed">>, <<"connected", "evaluated">>,
      <<"listed", "evaluated">>,
      <<"evaluated", "annotating">>, <<"evaluated", "reporting">>,
      <<"annotating", "annotating">>, <<"annotating", "reporting">>,
      <<"reporting", "done">> }

GroupedPods == { <<pods_to_annotate[k].namespace, pods_to_annotate[k].pod_name>> :
                   k \in 1..Len(pods_to_annotate) }

C10_Order ==
    /\ pc \in PcValues
    /\ pc \in {"start", "fallback", "failed"} => api_calls = << >>
    /\ api_calls # << >> => v1_client # None
    /\ pc = "annotating" => (args.annotate /\ issues # << >>)
    /\ PatchCalls # << >>
         => (args.annotate /\ issues # << >> /\ pc \in {"annotating", "reporting", "done"})
    /\ (pc = "annotating" \/ PatchCalls # << >>) => GroupedPods = PodsOf(issues)
    /\ stdout # << >> <=> pc = "done"
    /\ pc = "done" => (Len(stdout) = 1 /\ v1_client # None)

C10_Step ==
    /\ <<pc, pc'>> \in AllowedSteps
    /\ api_calls' # api_calls
         => (pc \in {"connected", "annotating"} /\ pods_to_annotate' = pods_to_annotate)
    /\ pods_to_annotate' # pods_to_annotate => (pc = "evaluated" /\ PatchCalls = << >>)
    /\ stdout' # stdout => (pc = "reporting" /\ api_calls' = api_calls)

\* C10: a run moves only along connect, list, evaluate, annotate, report, done;
\* the Cluster API is called only by a connected run; annotating is entered
\* only with annotation requested and Findings present; the grouping is
\* complete before the first patch call and never changes afterwards; the
\* report is printed after the last patch call, once, by every run that is done.
C10_LinearOrder == [](C10_Order) /\ [][C10_Step]_vars

\* a finished run that listed, patched two pods and printed one report
C10_Witness ==
    /\ pc = "done"
    /\ args.annotate
    /\ Len(api_calls) = 3
    /\ Len(PatchCalls) = 2
    /\ Len(stdout) = 1

====
